---- MODULE Spec2Model ----
(***************************************************************************)
(* Transactional outbox: the order writer (POST /orders) and the outbox    *)
(* relay worker, over one MongoDB store.                                    *)
(*                                                                         *)
(* Amounts: a unitPrice is held in thousandths of the currency unit (so    *)
(* that rounding to 2 decimals does something); lineTotal and grandTotal    *)
(* are held in hundredths (minor units). Prices with a third decimal are    *)
(* multiples of 0.125, which a double holds exactly, so that the integer    *)
(* arithmetic here and the source's arithmetic on doubles agree.            *)
(***************************************************************************)
EXTENDS Integers, Sequences, FiniteSets, TLC

\* ---------------------------------------------------------------- bounds
\* Number of POST /orders requests over an execution.
MaxOrders == 3
\* Number of relay ticks that can be in flight at once (the interval timer
\* does not wait for the previous callback).
MaxTicks == 2
\* The relay's batch size. The source sets 50; it is scaled down so that
\* "more than BATCH pending events" happens within MaxOrders.
BATCH == 2

Writers == 1..MaxOrders
Ticks == 1..MaxTicks

VARIABLES
  orders,      \* committed Order documents (what any reader sees)
  orderItems,  \* committed OrderItem documents
  outbox,      \* committed OutboxEvent documents
  txn,         \* txn[w]: writes buffered in request w's session, not yet visible
  wpc,         \* wpc[w]: position of request w's handler
  body,        \* body[w]: req.validated of request w
  resp,        \* resp[w]: HTTP status sent to the caller (0: none yet)
  clock,       \* wall clock in ms (the source of createdAt)
  worker,      \* the relay process: "starting", "running" or "exited"
  tpc,         \* tpc[t]: position of tick t's callback
  batch,       \* batch[t]: `events`, the _ids read by tick t, in order
  idx,         \* idx[t]: position of the for-loop in batch[t]
  err,         \* err[t]: the value caught by the per-event catch
  ret,         \* ret[t]: what the awaited publish(evt) resolved to
  pubLog       \* pubLog[t]: the events tick t has handed to publish(), in order

storeVars == <<orders, orderItems, outbox>>
writerVars == <<txn, wpc, body, resp, clock>>
relayVars == <<worker, tpc, batch, idx, err, ret, pubLog>>
vars == <<orders, orderItems, outbox, txn, wpc, body, resp, clock,
          worker, tpc, batch, idx, err, ret, pubLog>>

\* ------------------------------------------------------------ values
\* lastError: absent (never set), null (cleared) or a string.
Absent == <<"absent">>
Null == <<"null">>
Str(s) == <<"str", s>>

\* String(objectId): an ObjectId renders as its own hex string.
IdString(id) == <<"oid", id>>

\* ObjectIds are unique per created document; request w's documents take w.
NewObjectId(w) == w

NoTxn == [orders |-> {}, items |-> {}, events |-> {}]

\* Request bodies that passed validateBody, by arrival.
Bodies ==
  << [customerId |-> "c1", currency |-> "INR",
      items |-> << [sku |-> "A1", name |-> "a", unitPrice |-> 10000, quantity |-> 3],
                   [sku |-> "B2", name |-> "b", unitPrice |-> 5500, quantity |-> 2] >>],
     [customerId |-> "c2", currency |-> "INR",
      items |-> << [sku |-> "C3", name |-> "c", unitPrice |-> 1125, quantity |-> 1] >>] >>

\* req.validated of the w-th request.
BodyOf(w) == Bodies[((w - 1) % Len(Bodies)) + 1]

\* The rounding with the fraction cut off instead (Math.floor).
Round2Floor(mills) == mills \div 10

\* Math.round(x * 100) / 100 for x given in thousandths: the result in
\* hundredths. Math.round takes a half towards +Infinity: floor(y + 0.5).
Round2(mills) == (mills + 5) \div 10

\* items.map(i => ({...i, lineTotal: Math.round(unitPrice * quantity * 100) / 100}))
ItemsWithTotals(items) ==
  [k \in 1..Len(items) |->
     [sku |-> items[k].sku, name |-> items[k].name,
      unitPrice |-> items[k].unitPrice, quantity |-> items[k].quantity,
      lineTotal |-> Round2(items[k].unitPrice * items[k].quantity)]]

RECURSIVE SumLineTotals(_)
SumLineTotals(s) ==
  IF s = << >> THEN 0 ELSE s[1].lineTotal + SumLineTotals(Tail(s))

\* Math.round(reduce(sum of lineTotal) * 100) / 100: the sum is in hundredths.
GrandTotal(withTotals) == Round2(SumLineTotals(withTotals) * 10)

\* The Order document of request w.
OrderDoc(w) ==
  LET wt == ItemsWithTotals(body[w].items) IN
  [_id |-> NewObjectId(w),
   customerId |-> body[w].customerId,
   currency |-> body[w].currency,
   status |-> "CONFIRMED",
   itemsSummary |-> [k \in 1..Len(wt) |->
                       [sku |-> wt[k].sku, quantity |-> wt[k].quantity,
                        lineTotal |-> wt[k].lineTotal]],
   grandTotal |-> GrandTotal(wt)]

\* The OrderItem documents of request w (itemsDocs), keyed by position.
ItemDocs(w) ==
  LET wt == ItemsWithTotals(body[w].items) IN
  { [orderId |-> NewObjectId(w), pos |-> k, sku |-> wt[k].sku, name |-> wt[k].name,
     unitPrice |-> wt[k].unitPrice, quantity |-> wt[k].quantity,
     lineTotal |-> wt[k].lineTotal] : k \in 1..Len(wt) }

\* OrderItemSchema validators: unitPrice min 0, quantity min 1, lineTotal min 0.
ItemValid(d) == d.unitPrice >= 0 /\ d.quantity >= 1 /\ d.lineTotal >= 0

\* OrderSchema validators: grandTotal min 0 (itemsSummary may be empty).
OrderValid(d) == d.grandTotal >= 0

\* The body of the 201 response of request w.
ResponseBody(w) ==
  [orderId |-> NewObjectId(w),
   grandTotal |-> GrandTotal(ItemsWithTotals(body[w].items)),
   currency |-> body[w].currency,
   status |-> "CONFIRMED"]

\* The outbox document with the customer in place of the order id.
EventDocWrongAggregate(w, createdAt) ==
  LET wt == ItemsWithTotals(body[w].items) IN
  [_id |-> NewObjectId(w),
   type |-> "ORDER_CREATED",
   aggregateId |-> <<"oid", 0>>,
   payload |-> [orderId |-> IdString(NewObjectId(w)),
                customerId |-> body[w].customerId,
                currency |-> body[w].currency,
                grandTotal |-> GrandTotal(wt),
                items |-> wt],
   status |-> "PENDING",
   lastError |-> Absent,
   createdAt |-> createdAt]

\* The OutboxEvent document of request w; status takes the schema default.
EventDoc(w, createdAt) ==
  LET wt == ItemsWithTotals(body[w].items) IN
  [_id |-> NewObjectId(w),
   type |-> "ORDER_CREATED",
   aggregateId |-> IdString(NewObjectId(w)),
   payload |-> [orderId |-> IdString(NewObjectId(w)),
                customerId |-> body[w].customerId,
                currency |-> body[w].currency,
                grandTotal |-> GrandTotal(wt),
                items |-> wt],
   status |-> "PENDING",
   lastError |-> Absent,
   createdAt |-> createdAt]

\* ------------------------------------------------------------ writer
Init ==
  /\ orders = {} /\ orderItems = {} /\ outbox = {}
  /\ txn = [w \in Writers |-> NoTxn]
  /\ wpc = [w \in Writers |-> "idle"]
  /\ body = [w \in Writers |-> BodyOf(w)]
  /\ resp = [w \in Writers |-> 0]
  /\ clock = 0
  /\ worker = "starting"
  /\ tpc = [t \in Ticks |-> "idle"]
  /\ batch = [t \in Ticks |-> << >>]
  /\ idx = [t \in Ticks |-> 0]
  /\ err = [t \in Ticks |-> Absent]
  /\ ret = [t \in Ticks |-> Absent]
  /\ pubLog = [t \in Ticks |-> << >>]

\* Requests are numbered in arrival order.
Arrived(w) == IF w = 1 THEN TRUE ELSE wpc[w - 1] # "idle"

\* A request arrives with a validated body; startSession() and
\* startTransaction() succeed and the try block is entered.
StartSession(w) ==
  /\ wpc[w] = "idle" /\ Arrived(w)
  /\ wpc' = [wpc EXCEPT ![w] = "order"]
  /\ txn' = [txn EXCEPT ![w] = NoTxn]
  /\ UNCHANGED <<body, resp, clock>>
  /\ UNCHANGED <<storeVars, relayVars>>

\* startSession() rejects: the await is outside the try, so nothing catches
\* it and no response is sent.
StartSessionFail(w) ==
  /\ wpc[w] = "idle" /\ Arrived(w)
  /\ wpc' = [wpc EXCEPT ![w] = "unhandled"]
  /\ UNCHANGED <<txn, body, resp, clock>>
  /\ UNCHANGED <<storeVars, relayVars>>

\* Order.create without { session }: the document is written outside the
\* transaction and is visible at once.
OrderCreateNoSession(w) ==
  /\ orders' = orders \cup {OrderDoc(w)}
  /\ UNCHANGED <<orderItems, outbox, txn>>

\* Where Order.create writes: with { session } into the transaction.
OrderCreateWrites(w) ==
  /\ txn' = [txn EXCEPT ![w].orders = @ \cup {OrderDoc(w)}]
  /\ UNCHANGED storeVars

\* Order.create([...], { session }); it rejects on a validator.
OrderCreate(w) ==
  /\ wpc[w] = "order"
  /\ OrderValid(OrderDoc(w))
  /\ OrderCreateWrites(w)
  /\ wpc' = [wpc EXCEPT ![w] = "items"]
  /\ UNCHANGED <<body, resp, clock>>
  /\ UNCHANGED relayVars

\* OrderItem.insertMany(itemsDocs, { session }); it rejects on a validator.
InsertItems(w) ==
  /\ wpc[w] = "items"
  /\ \A d \in ItemDocs(w) : ItemValid(d)
  /\ txn' = [txn EXCEPT ![w].items = @ \cup ItemDocs(w)]
  /\ wpc' = [wpc EXCEPT ![w] = "event"]
  /\ UNCHANGED <<body, resp, clock>>
  /\ UNCHANGED <<storeVars, relayVars>>

\* OutboxEvent.create([...], { session }); createdAt is the clock at creation,
\* which may or may not have moved since the previous document.
OutboxCreate(w) ==
  /\ wpc[w] = "event"
  /\ \E adv \in (IF clock = 0 THEN {1} ELSE {0, 1}) :
       /\ clock' = clock + adv
       /\ txn' = [txn EXCEPT ![w].events = @ \cup {EventDoc(w, clock + adv)}]
  /\ wpc' = [wpc EXCEPT ![w] = "commit"]
  /\ UNCHANGED <<body, resp>>
  /\ UNCHANGED <<storeVars, relayVars>>

\* What commitTransaction makes visible, in one step.
CommitWrites(w) ==
  /\ orders' = orders \cup txn[w].orders
  /\ orderItems' = orderItems \cup txn[w].items
  /\ outbox' = outbox \cup txn[w].events

\* The handler publishing the event itself once the commit is through.
CommitAndPublish(w) ==
  /\ wpc[w] = "commit"
  /\ CommitWrites(w)
  /\ txn' = [txn EXCEPT ![w] = NoTxn]
  /\ resp' = [resp EXCEPT ![w] = 201]
  /\ wpc' = [wpc EXCEPT ![w] = "done"]
  /\ pubLog' = [pubLog EXCEPT ![1] = Append(@, NewObjectId(w))]
  /\ UNCHANGED <<body, clock>>
  /\ UNCHANGED <<worker, tpc, batch, idx, err, ret>>

\* commitTransaction succeeds; 201 is sent.
Commit(w) ==
  /\ wpc[w] = "commit"
  /\ CommitWrites(w)
  /\ txn' = [txn EXCEPT ![w] = NoTxn]
  /\ resp' = [resp EXCEPT ![w] = 201]
  /\ wpc' = [wpc EXCEPT ![w] = "done"]
  /\ UNCHANGED <<body, clock>>
  /\ UNCHANGED relayVars

\* An awaited store call inside the try rejects (or a validator does).
StepFail(w) ==
  /\ wpc[w] \in {"order", "items", "event", "commit"}
  /\ wpc' = [wpc EXCEPT ![w] = "catch"]
  /\ UNCHANGED <<txn, body, resp, clock>>
  /\ UNCHANGED <<storeVars, relayVars>>

\* catch: abortTransaction, endSession, 500 OrderCreationFailed.
Catch(w) ==
  /\ wpc[w] = "catch"
  /\ txn' = [txn EXCEPT ![w] = NoTxn]
  /\ resp' = [resp EXCEPT ![w] = 500]
  /\ wpc' = [wpc EXCEPT ![w] = "done"]
  /\ UNCHANGED <<body, clock>>
  /\ UNCHANGED <<storeVars, relayVars>>

\* ------------------------------------------------------------- relay
\* Values a rejected await can carry: an Error with a message, or a bare string.
PublishError == [kind |-> "Error", text |-> "publish failed"]
StoreError == [kind |-> "Error", text |-> "write failed"]

\* String(err?.message || err)
ErrString(e) ==
  IF e.kind = "Error"
    THEN (IF e.text # "" THEN e.text ELSE "Error")
    ELSE e.text

PendingIds == { e._id : e \in { d \in outbox : d.status = "PENDING" } }
CreatedAt(id) == (CHOOSE d \in outbox : d._id = id).createdAt

\* The orders in which sort({ createdAt: 1 }) can return the documents S:
\* ascending createdAt, documents with equal createdAt in any order.
SortedByCreatedAt(S) ==
  { s \in [1..Cardinality(S) -> S] :
      /\ \A i, j \in 1..Cardinality(S) : i # j => s[i] # s[j]
      /\ \A i, j \in 1..Cardinality(S) : i < j => CreatedAt(s[i]) <= CreatedAt(s[j]) }

\* The query without .limit(BATCH).
LimitMissing(s) == s

\* .limit(BATCH)
Limit(s) == SubSeq(s, 1, IF Len(s) < BATCH THEN Len(s) ELSE BATCH)

\* The query with the limit applied before the status filter: the BATCH
\* oldest documents, of which the PENDING ones are kept.
FindPendingLimitFirst ==
  { SelectSeq(Limit(s), LAMBDA id : id \in PendingIds) :
      s \in SortedByCreatedAt({ d._id : d \in outbox }) }

\* The query without the status filter.
FindAnyStatus == { Limit(s) : s \in SortedByCreatedAt({ d._id : d \in outbox }) }

\* find({ status: "PENDING" }).sort({ createdAt: 1 }).limit(BATCH)
FindPending == { Limit(s) : s \in SortedByCreatedAt(PendingIds) }

\* The success write without the status filter.
UpdateSentUnguarded(id) ==
  { IF d._id = id
      THEN [d EXCEPT !.status = "SENT", !.lastError = Null]
      ELSE d : d \in outbox }

\* updateOne({ _id: id, status: "PENDING" }, { $set: { status: "SENT", lastError: null } })
UpdateSent(id) ==
  { IF d._id = id /\ d.status = "PENDING"
      THEN [d EXCEPT !.status = "SENT", !.lastError = Null]
      ELSE d : d \in outbox }

\* The failure write with the status left out of the $set.
UpdateFailedErrorOnly(id, e) ==
  { IF d._id = id
      THEN [d EXCEPT !.lastError = Str(ErrString(e))]
      ELSE d : d \in outbox }

\* The failure write as a replacement of the document instead of a $set.
UpdateFailedReplace(id, e) ==
  { IF d._id = id
      THEN [d EXCEPT !.status = "FAILED", !.lastError = Str(ErrString(e)),
                     !.type = "", !.aggregateId = "", !.payload = << >>]
      ELSE d : d \in outbox }

\* updateOne({ _id: id }, { $set: { status: "FAILED", lastError: String(...) } })
UpdateFailed(id, e) ==
  { IF d._id = id
      THEN [d EXCEPT !.status = "FAILED", !.lastError = Str(ErrString(e))]
      ELSE d : d \in outbox }

\* run(): connect resolves and setInterval is armed.
ConnectOk ==
  /\ worker = "starting"
  /\ worker' = "running"
  /\ UNCHANGED <<tpc, batch, idx, err, ret, pubLog>>
  /\ UNCHANGED <<storeVars, writerVars>>

\* run(): connect rejects; run().catch logs and calls process.exit(1).
ConnectFail ==
  /\ worker = "starting"
  /\ worker' = "exited"
  /\ UNCHANGED <<tpc, batch, idx, err, ret, pubLog>>
  /\ UNCHANGED <<storeVars, writerVars>>

\* The relay process is started again after it exited.
Restart ==
  /\ worker = "exited"
  /\ worker' = "starting"
  /\ UNCHANGED <<tpc, batch, idx, err, ret, pubLog>>
  /\ UNCHANGED <<storeVars, writerVars>>

\* The tick's callback is over: its locals are gone.
TickEnds(t) ==
  /\ tpc' = [tpc EXCEPT ![t] = "idle"]
  /\ batch' = [batch EXCEPT ![t] = << >>]
  /\ idx' = [idx EXCEPT ![t] = 0]
  /\ err' = [err EXCEPT ![t] = Absent]
  /\ ret' = [ret EXCEPT ![t] = Absent]
  /\ pubLog' = [pubLog EXCEPT ![t] = << >>]

\* The relay process dies (with every tick in flight) and is started again.
RelayCrash ==
  /\ worker = "running"
  /\ worker' = "starting"
  /\ tpc' = [t \in Ticks |-> "idle"]
  /\ batch' = [t \in Ticks |-> << >>]
  /\ idx' = [t \in Ticks |-> 0]
  /\ err' = [t \in Ticks |-> Absent]
  /\ ret' = [t \in Ticks |-> Absent]
  /\ pubLog' = [t \in Ticks |-> << >>]
  /\ UNCHANGED <<storeVars, writerVars>>

\* Tick slots are taken lowest first.
SlotFree(t) == tpc[t] = "idle" /\ \A u \in Ticks : u < t => tpc[u] # "idle"

\* The interval skipping a firing while a callback is in flight.
TickFireExclusive(t) ==
  /\ worker = "running"
  /\ SlotFree(t)
  /\ \A u \in Ticks : tpc[u] = "idle"
  /\ tpc' = [tpc EXCEPT ![t] = "find"]
  /\ UNCHANGED <<worker, batch, idx, err, ret, pubLog>>
  /\ UNCHANGED <<storeVars, writerVars>>

\* The interval fires: the callback starts, whether or not an earlier one
\* is still in flight.
TickFire(t) ==
  /\ worker = "running"
  /\ SlotFree(t)
  /\ tpc' = [tpc EXCEPT ![t] = "find"]
  /\ UNCHANGED <<worker, batch, idx, err, ret, pubLog>>
  /\ UNCHANGED <<storeVars, writerVars>>

\* The pending batch is read; an empty batch ends the tick.
FindOk(t) ==
  /\ tpc[t] = "find"
  /\ \E evts \in FindPending :
       IF evts = << >>
         THEN TickEnds(t)
         ELSE /\ batch' = [batch EXCEPT ![t] = evts]
              /\ idx' = [idx EXCEPT ![t] = 1]
              /\ tpc' = [tpc EXCEPT ![t] = "publish"]
              /\ UNCHANGED <<err, ret, pubLog>>
  /\ UNCHANGED worker
  /\ UNCHANGED <<storeVars, writerVars>>

\* The read rejects with no outer try/catch around it: the rejection is
\* unhandled and ends the process.
FindFailUncaught(t) ==
  /\ tpc[t] = "find"
  /\ worker' = "exited"
  /\ tpc' = [u \in Ticks |-> "idle"]
  /\ batch' = [u \in Ticks |-> << >>]
  /\ idx' = [u \in Ticks |-> 0]
  /\ err' = [u \in Ticks |-> Absent]
  /\ ret' = [u \in Ticks |-> Absent]
  /\ pubLog' = [u \in Ticks |-> << >>]
  /\ UNCHANGED <<storeVars, writerVars>>

\* The read rejects: the outer catch logs "outbox tick failed".
FindFail(t) ==
  /\ tpc[t] = "find"
  /\ TickEnds(t)
  /\ UNCHANGED worker
  /\ UNCHANGED <<storeVars, writerVars>>

Evt(t) == batch[t][idx[t]]

\* publish(evt) is invoked for the current event.
Invoke(t) ==
  /\ tpc[t] = "publish"
  /\ pubLog' = [pubLog EXCEPT ![t] = Append(@, Evt(t))]

\* publish resolves true: the transport took the event.
PublishOk(t) ==
  /\ Invoke(t)
  /\ ret' = [ret EXCEPT ![t] = <<"true">>]
  /\ tpc' = [tpc EXCEPT ![t] = "markSent"]
  /\ UNCHANGED <<worker, batch, idx, err>>
  /\ UNCHANGED <<storeVars, writerVars>>

\* publish resolves with a failure outcome (false); the value is not read.
PublishFalse(t) ==
  /\ Invoke(t)
  /\ ret' = [ret EXCEPT ![t] = <<"false">>]
  /\ tpc' = [tpc EXCEPT ![t] = "markSent"]
  /\ UNCHANGED <<worker, batch, idx, err>>
  /\ UNCHANGED <<storeVars, writerVars>>

\* publish rejects: the per-event catch takes the error.
PublishThrow(t) ==
  /\ Invoke(t)
  /\ err' = [err EXCEPT ![t] = PublishError]
  /\ tpc' = [tpc EXCEPT ![t] = "markFailed"]
  /\ UNCHANGED <<worker, batch, idx, ret>>
  /\ UNCHANGED <<storeVars, writerVars>>

\* The for-loop moves to the next event, or the tick is over.
NextEvent(t) ==
  IF idx[t] < Len(batch[t])
    THEN /\ idx' = [idx EXCEPT ![t] = @ + 1]
         /\ tpc' = [tpc EXCEPT ![t] = "publish"]
         /\ err' = [err EXCEPT ![t] = Absent]
         /\ ret' = [ret EXCEPT ![t] = Absent]
         /\ UNCHANGED <<batch, pubLog>>
    ELSE TickEnds(t)

\* The success write resolves.
MarkSent(t) ==
  /\ tpc[t] = "markSent"
  /\ outbox' = UpdateSent(Evt(t))
  /\ NextEvent(t)
  /\ UNCHANGED <<worker, orders, orderItems>>
  /\ UNCHANGED writerVars

\* The success write rejects: it is inside the try, so the per-event catch
\* takes the store's error.
MarkSentFail(t) ==
  /\ tpc[t] = "markSent"
  /\ err' = [err EXCEPT ![t] = StoreError]
  /\ tpc' = [tpc EXCEPT ![t] = "markFailed"]
  /\ UNCHANGED <<worker, batch, idx, ret, pubLog>>
  /\ UNCHANGED <<storeVars, writerVars>>

\* The failure write resolves.
MarkFailed(t) ==
  /\ tpc[t] = "markFailed"
  /\ outbox' = UpdateFailed(Evt(t), err[t])
  /\ NextEvent(t)
  /\ UNCHANGED <<worker, orders, orderItems>>
  /\ UNCHANGED writerVars

\* The failure write rejects inside the per-event catch: the outer catch
\* logs "outbox tick failed" and the rest of the batch is dropped.
MarkFailedFail(t) ==
  /\ tpc[t] = "markFailed"
  /\ TickEnds(t)
  /\ UNCHANGED worker
  /\ UNCHANGED <<storeVars, writerVars>>

WriterNext ==
  \E w \in Writers :
    \/ StartSession(w) \/ StartSessionFail(w)
    \/ OrderCreate(w) \/ InsertItems(w) \/ OutboxCreate(w)
    \/ Commit(w) \/ StepFail(w) \/ Catch(w)

RelayNext ==
  \/ ConnectOk \/ ConnectFail \/ Restart \/ RelayCrash
  \/ \E t \in Ticks :
       \/ TickFire(t) \/ FindOk(t) \/ FindFail(t)
       \/ PublishOk(t) \/ PublishFalse(t) \/ PublishThrow(t)
       \/ MarkSent(t) \/ MarkSentFail(t)
       \/ MarkFailed(t) \/ MarkFailedFail(t)

Next == WriterNext \/ RelayNext

Spec == Init /\ [][Next]_vars

\* A step of request w's handler.
WriterStep(w) ==
  \/ StartSession(w) \/ StartSessionFail(w)
  \/ OrderCreate(w) \/ InsertItems(w) \/ OutboxCreate(w)
  \/ Commit(w) \/ StepFail(w) \/ Catch(w)

\* publish(evt) settles, one way or another.
Publish(t) == PublishOk(t) \/ PublishFalse(t) \/ PublishThrow(t)

\* No other request is in flight.
Serial(w) == \A u \in Writers : u # w => wpc[u] \in {"idle", "done", "unhandled"}

\* Requests served one at a time.
SerialWriterNext == \E w \in Writers : Serial(w) /\ WriterStep(w)

\* The relay on a healthy store and a process that stays up: ticks fire
\* (and overlap), reads and writes resolve, the Publisher may still refuse
\* or throw.
HealthyRelayNext ==
  \/ ConnectOk
  \/ \E t \in Ticks :
       \/ TickFire(t) \/ FindOk(t)
       \/ PublishOk(t) \/ PublishFalse(t) \/ PublishThrow(t)
       \/ MarkSent(t) \/ MarkFailed(t)

LiveNext == SerialWriterNext \/ HealthyRelayNext

\* What the scheduling gives: a started handler's awaits settle, the relay
\* connects, its interval timer keeps firing, and each await of a tick (the
\* read, the publish call, the status write) settles.
Fairness ==
  /\ \A w \in Writers : WF_vars(wpc[w] # "idle" /\ Serial(w) /\ WriterStep(w))
  /\ WF_vars(ConnectOk)
  /\ WF_vars(\E t \in Ticks : TickFire(t))
  /\ \A t \in Ticks :
       /\ WF_vars(FindOk(t))
       /\ WF_vars(Publish(t))
       /\ WF_vars(MarkSent(t))
       /\ WF_vars(MarkFailed(t))

\* The Publisher is not down for ever: a publish call that is attempted
\* again and again eventually reports success.
PublisherFairness ==
  \A t \in Ticks : SF_vars(PublishOk(t))

\* The relay under fair scheduling.
FairSpec == Init /\ [][LiveNext]_vars /\ Fairness

\* The relay under fair scheduling with a Publisher that recovers.
FairPublisherSpec == Init /\ [][LiveNext]_vars /\ Fairness /\ PublisherFairness

\* The interval fires after the previous callback has returned.
TickFireAlone(t) == (\A u \in Ticks : tpc[u] = "idle") /\ TickFire(t)

\* One relay whose ticks never overlap, a process that stays up and status
\* writes that always succeed; requests arrive and fail as they may, a read
\* may fail, the Publisher may refuse or throw.
NonOverlapNext ==
  \/ WriterNext
  \/ ConnectOk
  \/ \E t \in Ticks :
       \/ TickFireAlone(t) \/ FindOk(t) \/ FindFail(t)
       \/ PublishOk(t) \/ PublishFalse(t) \/ PublishThrow(t)
       \/ MarkSent(t) \/ MarkFailed(t)

NonOverlapSpec == Init /\ [][NonOverlapNext]_vars

\* ------------------------------------------------- writer inputs
\* The handler on any body the request adapter hands it: up to MaxItems
\* items, prices and quantities on both sides of the schema's minimums.
MaxItems == 2
Prices == {-125, 0, 125, 5500, 10000}
Quantities == {0, 1, 2, 3}
Skus == <<"A1", "B2", "C3">>

ItemSeqs ==
  UNION { [1..n -> [unitPrice : Prices, quantity : Quantities]] : n \in 0..MaxItems }

InputBodies ==
  { [customerId |-> "c1", currency |-> "INR",
     items |-> [k \in 1..Len(s) |->
                  [sku |-> Skus[k], name |-> "n",
                   unitPrice |-> s[k].unitPrice, quantity |-> s[k].quantity]]] :
      s \in ItemSeqs }

\* As Init, with every request carrying one body out of InputBodies.
InitInput ==
  /\ orders = {} /\ orderItems = {} /\ outbox = {}
  /\ txn = [w \in Writers |-> NoTxn]
  /\ wpc = [w \in Writers |-> "idle"]
  /\ \E b \in InputBodies : body = [w \in Writers |-> b]
  /\ resp = [w \in Writers |-> 0]
  /\ clock = 0
  /\ worker = "starting"
  /\ tpc = [t \in Ticks |-> "idle"]
  /\ batch = [t \in Ticks |-> << >>]
  /\ idx = [t \in Ticks |-> 0]
  /\ err = [t \in Ticks |-> Absent]
  /\ ret = [t \in Ticks |-> Absent]
  /\ pubLog = [t \in Ticks |-> << >>]

\* The writer alone, over all inputs.
InputSpec == InitInput /\ [][SerialWriterNext]_vars

\* ------------------------------------------------------------ claims
\* What a reader sees of request w's documents.
OrdersOf(w) == { o \in orders : o._id = NewObjectId(w) }
ItemsOf(w) == { d \in orderItems : d.orderId = NewObjectId(w) }
EventsOf(w) == { e \in outbox : e.aggregateId = IdString(NewObjectId(w)) }
NoneVisible(w) == OrdersOf(w) = {} /\ ItemsOf(w) = {} /\ EventsOf(w) = {}
AllVisible(w) ==
  /\ Cardinality(OrdersOf(w)) = 1
  /\ Cardinality(ItemsOf(w)) = Len(body[w].items)
  /\ Cardinality(EventsOf(w)) = 1

\* C1: createOrder is all-or-nothing. In every reachable state a reader sees,
\* of each request, either none of its documents or the Order, all its
\* OrderItems and its OutboxEvent together; nothing is visible before the
\* commit, nothing of a request answered 500, everything of one answered 201.
C1_AllOrNothing ==
  \A w \in Writers :
    /\ NoneVisible(w) \/ AllVisible(w)
    /\ wpc[w] # "done" => NoneVisible(w)
    /\ resp[w] = 500 => NoneVisible(w)
    /\ resp[w] = 201 => AllVisible(w)

\* One request failed after its inserts, one committed, one is in the middle
\* of its transaction with the Order inserted and the OutboxEvent not yet.
C1_Witness ==
  \E a, b, c \in Writers :
    /\ resp[a] = 500 /\ resp[b] = 201 /\ AllVisible(b)
    /\ txn[c].orders # {} /\ txn[c].items # {} /\ txn[c].events = {}

\* C2: persisted Orders and OutboxEvents are in one-to-one correspondence:
\* each Order has exactly one OutboxEvent, whose aggregateId is the string
\* form of the Order's id and whose type is ORDER_CREATED, and each
\* OutboxEvent refers to exactly one persisted Order.
C2_OneToOne ==
  /\ \A o \in orders :
       /\ Cardinality({ e \in outbox : e.aggregateId = IdString(o._id) }) = 1
       /\ \A e \in outbox : e.aggregateId = IdString(o._id) => e.type = "ORDER_CREATED"
  /\ \A e \in outbox :
       Cardinality({ o \in orders : IdString(o._id) = e.aggregateId }) = 1

\* Two orders are persisted, a third request failed, and the relay has
\* already retired one of the events.
C2_Witness ==
  /\ Cardinality(orders) = 2
  /\ \E w \in Writers : resp[w] = 500
  /\ \E e \in outbox : e.status = "SENT"
  /\ \E e \in outbox : e.status = "PENDING"

Doc(ob, id) == CHOOSE d \in ob : d._id = id
Ids(ob) == { d._id : d \in ob }
IsPrefix(s, r) == Len(s) <= Len(r) /\ s = SubSeq(r, 1, Len(s))

\* C3: an OutboxEvent's status changes only from PENDING: once it is SENT or
\* FAILED, no step changes it.
C3_StatusTerminal ==
  [][\A id \in Ids(outbox) :
       Doc(outbox, id).status # "PENDING"
         => Doc(outbox', id).status = Doc(outbox, id).status]_vars

\* The batch b is a choice of the min(BATCH, number pending) oldest PENDING
\* events of the store, oldest first.
OldestPending(b) ==
  LET n == Cardinality(PendingIds)
      R == { b[k] : k \in 1..Len(b) } IN
  /\ Len(b) = (IF n < BATCH THEN n ELSE BATCH)
  /\ Cardinality(R) = Len(b)
  /\ R \subseteq PendingIds
  /\ \A x \in R : \A y \in PendingIds \ R : CreatedAt(x) <= CreatedAt(y)
  /\ \A i, j \in 1..Len(b) : i < j => CreatedAt(b[i]) <= CreatedAt(b[j])

\* C4 (amended): a tick hands at most BATCH events to the Publisher; what it
\* selects is the min(BATCH, number pending) oldest PENDING events at the
\* moment of the read; it invokes the Publisher on them one at a time, in
\* the order read, which is ascending by creation time (events with equal
\* creation time in either order).
C4_OldestFirst ==
  /\ [](\A t \in Ticks :
         /\ Len(pubLog[t]) <= BATCH
         /\ IsPrefix(pubLog[t], batch[t])
         /\ Len(pubLog[t]) = (IF tpc[t] \in {"markSent", "markFailed"} THEN idx[t]
                                ELSE IF tpc[t] = "publish" THEN idx[t] - 1 ELSE 0)
         /\ \A i, j \in 1..Len(pubLog[t]) :
              i < j => CreatedAt(pubLog[t][i]) <= CreatedAt(pubLog[t][j]))
  /\ [][\A t \in Ticks :
          tpc[t] = "find" /\ tpc'[t] = "publish" => OldestPending(batch'[t])]_vars

\* C4 (as stated): the same, with the Publisher invoked in strictly
\* ascending creation-time order.
C4_StrictlyAscending ==
  /\ [](\A t \in Ticks :
         /\ Len(pubLog[t]) <= BATCH
         /\ IsPrefix(pubLog[t], batch[t])
         /\ \A i, j \in 1..Len(pubLog[t]) :
              i < j => CreatedAt(pubLog[t][i]) < CreatedAt(pubLog[t][j]))
  /\ [][\A t \in Ticks :
          tpc[t] = "find" /\ tpc'[t] = "publish" => OldestPending(batch'[t])]_vars

\* Three events are pending, a tick has read the two oldest and is handing
\* over the second of them.
C4_Witness ==
  \E t \in Ticks :
    /\ Len(batch[t]) = BATCH /\ Len(pubLog[t]) = BATCH
    /\ Cardinality(outbox) > BATCH
    /\ \A d \in outbox : d._id \notin { batch[t][k] : k \in 1..Len(batch[t]) }
          => d.status = "PENDING" /\ d.createdAt > CreatedAt(batch[t][BATCH])

\* Tick t takes the step.
Steps(t) == tpc'[t] # tpc[t] \/ idx'[t] # idx[t]

\* C5: an event becomes SENT only in a step of a tick whose publish call for
\* it reported success; and when a tick whose publish call for an event
\* reported failure (resolved with a failure outcome, or threw) records the
\* outcome, it records FAILED with the failure in lastError, not SENT.
C5_SentOnlyOnSuccess ==
  /\ [][\A id \in Ids(outbox) :
          (Doc(outbox, id).status # "SENT" /\ Doc(outbox', id).status = "SENT")
            => \E t \in Ticks :
                 tpc[t] = "markSent" /\ Evt(t) = id /\ ret[t] = <<"true">> /\ Steps(t)]_vars
  /\ [][\A t \in Ticks :
          ((ret[t] = <<"false">> \/ err[t] = PublishError)
             /\ (MarkSent(t) \/ MarkFailed(t)))
            => /\ Doc(outbox', Evt(t)).status = "FAILED"
               /\ Doc(outbox', Evt(t)).lastError \notin {Absent, Null}]_vars

C9_WholeBatchHanded ==
  [][\A t \in Ticks :
       (tpc[t] \in {"markSent", "markFailed"} /\ tpc'[t] = "idle" /\ worker' = "running")
         => pubLog[t] = batch[t]]_vars

\* C10: a tick whose read fails, or that fails unexpectedly inside its
\* per-event loop, leaves the relay running, changes no OutboxEvent in that
\* step, and frees its slot with nothing of the failed tick left behind and
\* the other ticks untouched, so the next tick reads the store as if the
\* failed tick had not happened; only the death of the process stops a
\* running relay.
C10_TickFailureContained ==
  /\ [][\A t \in Ticks :
          (/\ \/ (tpc[t] = "find" /\ PendingIds # {})
              \/ (tpc[t] = "markFailed" /\ idx[t] < Len(batch[t]))
           /\ tpc'[t] \notin {tpc[t], "publish", "markSent", "markFailed"}
           /\ ~RelayCrash)
          => /\ worker' = "running"
             /\ outbox' = outbox
             /\ tpc'[t] = "idle" /\ batch'[t] = << >> /\ idx'[t] = 0
             /\ pubLog'[t] = << >>
             /\ \A u \in Ticks : u # t =>
                  tpc'[u] = tpc[u] /\ batch'[u] = batch[u] /\ idx'[u] = idx[u]]_vars
  /\ [][(worker = "running" /\ worker' # "running") => RelayCrash]_vars

\* A tick is about to read while events are pending and another tick is in
\* the middle of its batch.
C10_Witness ==
  \E t, u \in Ticks :
    /\ tpc[t] = "find" /\ PendingIds # {}
    /\ tpc[u] = "markFailed" /\ idx[u] < Len(batch[u])

\* Event id has just been handed to the Publisher by some tick.
HandedNow(id) ==
  \E t \in Ticks : \E k \in 1..Len(pubLog[t]) : pubLog[t][k] = id

\* The Publisher has just reported success for event id to some tick.
DeliveredNow(id) ==
  \E t \in Ticks : tpc[t] = "markSent" /\ Evt(t) = id /\ ret[t] = <<"true">>

\* C7: every request that reaches its commit either fails or has its
\* OutboxEvent handed to the Publisher afterwards, under Fairness.
C7_EventuallyHanded ==
  \A id \in Writers :
    [](wpc[id] = "commit" => <>(HandedNow(id) \/ resp[id] = 500))

\* An event is being handed to the Publisher after BATCH older events have
\* been retired: it was beyond the first batch.
C7_Witness ==
  \E d \in outbox :
    /\ HandedNow(d._id) /\ d.status = "PENDING"
    /\ Cardinality({ x \in outbox : x._id # d._id /\ x.createdAt <= d.createdAt
                                      /\ x.status # "PENDING" }) >= BATCH

\* C8: every request that reaches its commit either fails or has its
\* OutboxEvent delivered successfully by the Publisher afterwards, under
\* Fairness.
C8_EventuallyDelivered ==
  \A id \in Writers :
    [](wpc[id] = "commit" => <>(DeliveredNow(id) \/ resp[id] = 500))

\* C11: a handler that is over has answered, with 201 or 500; a 201 is sent
\* only for a committed transaction; a 500 is sent with the transaction
\* aborted and nothing of it visible; and a request whose handling failed at
\* any step (opening the session included) has been answered 500.
C11_AlwaysOneFailureResponse ==
  \A w \in Writers :
    /\ wpc[w] \in {"done", "unhandled"} => resp[w] \in {201, 500}
    /\ wpc[w] = "unhandled" => resp[w] = 500
    /\ resp[w] = 201 => AllVisible(w)
    /\ resp[w] = 500 => txn[w] = NoTxn /\ NoneVisible(w)

\* h is m thousandths rounded half-up to hundredths.
IsHalfUp(h, m) == 10 * h - 5 <= m /\ m < 10 * h + 5

RECURSIVE SumOver(_)
SumOver(S) ==
  IF S = {} THEN 0
  ELSE LET d == CHOOSE x \in S : TRUE IN d.lineTotal + SumOver(S \ {d})

\* C12: for every persisted Order, each of its OrderItems has lineTotal equal
\* to unitPrice times quantity rounded half-up to 2 decimals, and the
\* grandTotal on the Order, in the 201 response and in the OutboxEvent
\* payload all equal the rounded sum of those line totals; the order of
\* [A1 10.00 x 3, B2 5.50 x 2] has grandTotal 41.00.
C12_TotalsConsistent ==
  \A w \in Writers : \A o \in OrdersOf(w) :
    /\ \A d \in ItemsOf(w) : IsHalfUp(d.lineTotal, d.unitPrice * d.quantity)
    /\ IsHalfUp(o.grandTotal, 10 * SumOver(ItemsOf(w)))
    /\ \A e \in EventsOf(w) : e.payload.grandTotal = o.grandTotal
    /\ resp[w] = 201 => ResponseBody(w).grandTotal = o.grandTotal
    /\ (/\ Len(body[w].items) = 2
        /\ body[w].items[1].unitPrice = 10000 /\ body[w].items[1].quantity = 3
        /\ body[w].items[2].unitPrice = 5500 /\ body[w].items[2].quantity = 2)
         => o.grandTotal = 4100

\* An order is persisted whose two line totals both needed rounding up
\* (0.125 x 1 -> 0.13, 0.125 x 3 -> 0.38).
C12_Witness ==
  \E w \in Writers :
    /\ resp[w] = 201 /\ Cardinality(ItemsOf(w)) = 2
    /\ \A d \in ItemsOf(w) : (d.unitPrice * d.quantity) % 10 = 5
    /\ \E o \in OrdersOf(w) : o.grandTotal = 51

\* The preconditions of createOrder.
ValidInput(b) ==
  /\ Len(b.items) >= 1
  /\ \A k \in 1..Len(b.items) : b.items[k].unitPrice >= 0 /\ b.items[k].quantity >= 1

\* C16: a request whose input violates the preconditions never has any of
\* its documents visible and is never answered 201.
C16_InvalidInputPersistsNothing ==
  \A w \in Writers : ~ValidInput(body[w]) => NoneVisible(w) /\ resp[w] # 201

\* C13: a step of a request handler invokes no Publisher and touches nothing
\* of the relay; a document that becomes visible in the outbox is PENDING
\* with no lastError; the Publisher is invoked only in a step of a running
\* relay's tick, for the current event of the batch that tick read, and a
\* tick's batch holds only events that were PENDING when it was read.
C13_WriterNeverPublishes ==
  /\ [][wpc' # wpc =>
          /\ pubLog' = pubLog /\ ret' = ret /\ err' = err
          /\ tpc' = tpc /\ batch' = batch /\ idx' = idx /\ worker' = worker]_vars
  /\ [][\A d \in outbox' :
          d._id \notin Ids(outbox) => d.status = "PENDING" /\ d.lastError = Absent]_vars
  /\ [][\A t \in Ticks :
          (pubLog'[t] # pubLog[t] /\ pubLog'[t] # << >>)
            => /\ worker = "running" /\ tpc[t] = "publish" /\ wpc' = wpc
               /\ pubLog'[t] = Append(pubLog[t], batch[t][idx[t]])]_vars
  /\ [][\A t \in Ticks :
          batch'[t] # batch[t] =>
            \A k \in 1..Len(batch'[t]) : batch'[t][k] \in PendingIds]_vars

\* A request has just been answered 201, its event is PENDING with no
\* lastError and handed to nobody, while a tick is publishing an older event.
C13_Witness ==
  \E w \in Writers : \E t \in Ticks :
    /\ resp[w] = 201 /\ ~HandedNow(NewObjectId(w))
    /\ \A e \in EventsOf(w) : e.status = "PENDING" /\ e.lastError = Absent
    /\ tpc[t] = "markSent" /\ Evt(t) # NewObjectId(w)
    /\ \A u \in Ticks : \A k \in 1..Len(batch[u]) : batch[u][k] # NewObjectId(w)

\* C14: the success write of a tick turns its event into SENT with lastError
\* null when the event is still PENDING, and changes nothing in the store
\* when it is not; no step turns a FAILED event into SENT.
C14_ConditionalSuccessWrite ==
  /\ [][\A t \in Ticks :
          (tpc[t] = "markSent" /\ tpc'[t] \in {"publish", "idle"} /\ worker' = worker)
            => IF Doc(outbox, Evt(t)).status = "PENDING"
                 THEN /\ Doc(outbox', Evt(t)).status = "SENT"
                      /\ Doc(outbox', Evt(t)).lastError = Null
                      /\ \A d \in outbox : d._id # Evt(t) => d \in outbox'
                 ELSE outbox' = outbox]_vars
  /\ [][\A id \in Ids(outbox) :
          Doc(outbox, id).status = "FAILED" => Doc(outbox', id).status # "SENT"]_vars

\* A tick whose publish call succeeded is about to write SENT for an event
\* that an overlapping tick has meanwhile marked FAILED.
C14_Witness ==
  \E t \in Ticks :
    /\ tpc[t] = "markSent" /\ ret[t] = <<"true">>
    /\ Doc(outbox, Evt(t)).status = "FAILED"

\* C15: every PENDING or SENT OutboxEvent has no lastError (absent or null).
C15_LastErrorOnlyWhenFailed ==
  \A d \in outbox :
    d.status \in {"PENDING", "SENT"} => d.lastError \in {Absent, Null}

\* The store holds a FAILED event with its error, a SENT one and a PENDING
\* one, while two ticks are in flight.
C15_Witness ==
  /\ \E d \in outbox : d.status = "FAILED" /\ d.lastError \notin {Absent, Null}
  /\ \E d \in outbox : d.status = "SENT" /\ d.lastError = Null
  /\ \E d \in outbox : d.status = "PENDING" /\ d.lastError = Absent
  /\ \A t \in Ticks : tpc[t] # "idle"

\* C17: while the relay runs, the interval can fire whenever a callback slot
\* is free, however many earlier callbacks are still in flight: nothing
\* makes a firing wait for the previous tick.
C17_OverlapNotPrevented ==
  \A t \in Ticks : (worker = "running" /\ SlotFree(t)) => ENABLED TickFire(t)

\* Two ticks in flight have both handed the same event to the Publisher.
C17_Witness ==
  \E id \in Ids(outbox) :
    \A t \in Ticks : \E k \in 1..Len(pubLog[t]) : pubLog[t][k] = id

\* C18: no step modifies or deletes a persisted Order or OrderItem; a step
\* of the relay creates and deletes nothing and leaves every field of every
\* OutboxEvent but status and lastError as it was; every persisted Order is
\* CONFIRMED.
C18_OwnershipSplit ==
  /\ [][/\ orders \subseteq orders' /\ orderItems \subseteq orderItems'
        /\ wpc' = wpc =>
             /\ orders' = orders /\ orderItems' = orderItems
             /\ Ids(outbox') = Ids(outbox)
             /\ Cardinality(outbox') = Cardinality(outbox)
             /\ \A id \in Ids(outbox) :
                  LET old == Doc(outbox, id)
                      new == Doc(outbox', id) IN
                  /\ new.type = old.type /\ new.aggregateId = old.aggregateId
                  /\ new.payload = old.payload /\ new.createdAt = old.createdAt]_vars
  /\ [](\A o \in orders : o.status = "CONFIRMED")

\* The relay has recorded a failure on the event of a persisted order, whose
\* payload still names that order.
C18_Witness ==
  \E o \in orders : \E e \in outbox :
    /\ e.aggregateId = IdString(o._id) /\ e.status = "FAILED"
    /\ e.payload.orderId = IdString(o._id) /\ e.type = "ORDER_CREATED"
    /\ o.status = "CONFIRMED"
    /\ \E d \in orderItems : d.orderId = o._id

\* C20: an event becomes FAILED only in the failure write of a tick whose
\* publish call for it failed (threw, or resolved with a failure outcome),
\* never of a tick whose publish call for it succeeded.
C20_FailedOnlyOnPublishFailure ==
  [][\A id \in Ids(outbox) :
       (Doc(outbox, id).status # "FAILED" /\ Doc(outbox', id).status = "FAILED")
         => \E t \in Ticks :
              /\ tpc[t] = "markFailed" /\ Evt(t) = id /\ Steps(t)
              /\ ret[t] # <<"true">>
              /\ (err[t] = PublishError \/ ret[t] = <<"false">>)]_vars

\* C19: with ticks that never overlap, no crash and status writes that
\* succeed, no event is handed to the Publisher twice within a tick, an
\* event that was handed over in a tick is handed over in no later tick,
\* and when a tick is over every event of its batch is non-PENDING.
C19_AtMostOnce ==
  /\ [](\A t \in Ticks : \A i, j \in 1..Len(pubLog[t]) :
          i # j => pubLog[t][i] # pubLog[t][j])
  /\ \A id \in Writers :
       [](HandedNow(id) => [](~HandedNow(id) => [](~HandedNow(id))))
  /\ [][\A t \in Ticks :
          (tpc[t] \in {"markSent", "markFailed"} /\ tpc'[t] = "idle")
            => \A k \in 1..Len(batch[t]) :
                 Doc(outbox', batch[t][k]).status # "PENDING"]_vars

\* A second tick is handing over the third event after the first tick
\* retired a full batch, one event as SENT and one as FAILED.
C19_Witness ==
  /\ \E d \in outbox : d.status = "SENT"
  /\ \E d \in outbox : d.status = "FAILED"
  /\ \E t \in Ticks :
       /\ tpc[t] = "markSent" /\ Len(batch[t]) = 1
       /\ Doc(outbox, Evt(t)).status = "PENDING"
====
